---- MODULE Spec2Model ----
(***************************************************************************)
(* The vote ledger of the voting widget: the data-access functions of      *)
(* server/db.ts (getDb, getAllCandidates, hasVoted, addVote,               *)
(* initializeCandidates), the three procedures of the voting router        *)
(* (server/routers.ts), the two tables of drizzle/schema.ts and the voting  *)
(* page (client/src/pages/Home.tsx).                                       *)
(*                                                                         *)
(* Every awaited store query is one atomic step of the request that        *)
(* issues it; requests of different callers interleave between their       *)
(* queries.  A query either succeeds or throws (a store error); the        *)
(* handle of the store exists only when DATABASE_URL is set.               *)
(***************************************************************************)
EXTENDS Integers, Sequences, FiniteSets, TLC

\* ------------------------------------------------------------------ bounds

\* Number of requests that can be in flight at the same time.
NumProcs == 2
\* Number of distinct voter identifiers the callers submit.
NumVoters == 2
\* Number of boundary calls started in one behaviour of concurrent requests.
MaxCalls == 2
\* Number of boundary calls started in one behaviour of sequential requests.
MaxSeqCalls == 5
\* Number of store queries that throw in one behaviour.
MaxFaults == 1
\* Number of vote calls started in one behaviour of concurrent vote calls.
MaxVoteCalls == 3

\* ------------------------------------------------------- program constants

\* Length of candidatesList, the seed of initializeCandidates.
SeedCount == 5
\* .limit(1) of the two selects of hasVoted and addVote.
Limit == 1

Procs == 1..NumProcs
Voters == 1..NumVoters

\* The names of candidatesList, by their position in the list.
candidatesList == [i \in 1..SeedCount |-> [name |-> i]]

\* A candidate id no row can have: every request seeds at most once.
UnknownId == SeedCount * (NumProcs + 1) + 1
\* The candidate ids the callers submit (z.number().int().positive()).
CandidateInputs == {1, 2, UnknownId}

\* A voter identifier v stands for the string of v characters: 0 is "".
VoterInputs == 0..NumVoters
\* The candidate ids a caller can put in a request, non-positive ones too.
CandidateIdInputs == CandidateInputs \cup {-1, 0}

VARIABLES
    DATABASE_URL,   \* process.env.DATABASE_URL is set (to a usable URL)
    _db,            \* the module-level handle: FALSE is null
    candidates,     \* table candidates: sequence of rows, in insertion order
    votes,          \* table votes: sequence of rows, in insertion order
    pc,             \* per request: the query it is about to issue
    op,             \* per request: the procedure and its input
    candidate,      \* per request: addVote's local `candidate` (rows read)
    response,       \* the response sent last, with the call it answers
    faultBudget,    \* store queries that may throw in this behaviour
    callBudget,     \* boundary calls that may start in this behaviour
    faults,         \* store queries that threw so far
    calls,          \* boundary calls started so far
    seen,           \* distinct voter identifiers submitted so far
    named,          \* distinct existing candidates voted for so far
    pre,            \* history: per request, the tables when the call started
    effect,         \* history: per request, what the call wrote so far
    accepted,       \* history: voters whose vote call returned success
    voteFailed,     \* history: some vote call returned a failure
    page            \* the state of the Home component of one browser

vars == <<DATABASE_URL, _db, candidates, votes, pc, op, candidate, response,
          faultBudget, callBudget, faults, calls, seen, named, pre, effect,
          accepted, voteFailed, page>>

\* The variables of the server process and its store.
server == <<DATABASE_URL, _db, candidates, votes, pc, op, candidate, response,
            faultBudget, callBudget, faults, calls, seen, named, pre, effect,
            accepted, voteFailed>>

store == <<candidates, votes>>
env == <<DATABASE_URL, faultBudget, callBudget, calls, seen, named>>

\* ----------------------------------------------------------------- helpers

\* The first n rows of a result (.limit(n)).
LimitRows(rows, n) == IF Len(rows) <= n THEN rows ELSE SubSeq(rows, 1, n)

Ids(table) == {table[i].id : i \in 1..Len(table)}

\* Error messages, as their sequence of words.
AlreadyVotedMessage == <<"This", "device", "has", "already", "voted">>
StoreErrorMessage == <<"connect", "ECONNREFUSED">>
ForeignKeyMessage == <<"Cannot", "add", "or", "update", "a", "child", "row">>
NoError == <<>>

\* String.prototype.includes: `part` occurs in `text` as a contiguous run.
Includes(text, part) ==
    \E i \in 0..(Len(text) - Len(part)) :
        \A j \in 1..Len(part) : text[i + j] = part[j]

\* getDb(): the handle after the call; it is created lazily, only when
\* DATABASE_URL is set, and kept for the life of the process.
getDb == IF ~_db /\ DATABASE_URL THEN TRUE ELSE _db

\* A store query may throw while the fault budget lasts.
Outcomes == IF faults < faultBudget THEN {TRUE, FALSE} ELSE {TRUE}

\* ---------------------------------------------------------------- responses

NoResult ==
    [kind |-> "none", success |-> FALSE, candidates |-> <<>>,
     value |-> FALSE, code |-> ""]

\* The value a query procedure resolves with.
ListResult(rows) == [NoResult EXCEPT !.kind = "list", !.candidates = rows]
BoolResult(b) == [NoResult EXCEPT !.kind = "bool", !.value = b]

\* voting.vote's return value { success: true, candidates }.
VoteSuccess(rows) ==
    [NoResult EXCEPT !.kind = "vote", !.success = TRUE, !.candidates = rows]

\* A catch block that takes every error for the duplicate-vote error.
TrpcCodeAlwaysBadRequest(message) == "BAD_REQUEST"

\* The code of the TRPCError the catch block of voting.vote throws.
TrpcCode(message) ==
    IF Includes(message, <<"already", "voted">>)
    THEN "BAD_REQUEST"
    ELSE "INTERNAL_SERVER_ERROR"

VoteFailure(message) ==
    [NoResult EXCEPT !.kind = "error", !.code = TrpcCode(message)]

\* The TRPCError of a request whose input the procedure's parser rejects.
InvalidInput == [NoResult EXCEPT !.kind = "invalid", !.code = "BAD_REQUEST"]

\* --------------------------------------------------------- input validation

\* z.string(): any string, the empty one too.
zString(v) == v \in Nat
\* z.string().min(1).
zStringMin1(v) == zString(v) /\ v >= 1
\* z.number().int().positive().
zPositiveInt(c) == c \in Int /\ c > 0

\* The input parser of voting.hasVoted.
HasVotedInputValid(v) == zString(v)
\* The input parser of voting.vote.
VoteInputValid(c, v) == zPositiveInt(c) /\ zStringMin1(v)

\* ------------------------------------------------------------------ queries

\* A getAllCandidates that answers with the table whatever happened.
getAllCandidatesUnguarded(ok) == candidates

\* db.select().from(candidates), or [] without a handle or on a store error.
getAllCandidates(ok) == IF getDb /\ ok THEN candidates ELSE <<>>

\* db.select().from(votes).where(voterIdentifier = v).limit(1), length > 0.
VoteRowsOf(v) ==
    LET Test(r) == r.voterIdentifier = v
    IN  LimitRows(SelectSeq(votes, Test), Limit)

\* A hasVoted that asks for more than the one row the select can return.
hasVotedOffByOne(v, ok) == IF getDb /\ ok THEN Len(VoteRowsOf(v)) > Limit ELSE FALSE

\* hasVoted(v): false without a handle and when the select throws.
hasVoted(v, ok) == IF getDb /\ ok THEN Len(VoteRowsOf(v)) > 0 ELSE FALSE

\* An initializeCandidates that seeds on every call.
SeedsEveryCall(existingCandidates) == FALSE

\* An initializeCandidates that takes a seeded table for an empty one.
NeverInitialized(existingCandidates) == Len(existingCandidates) > SeedCount

\* initializeCandidates' test `existingCandidates.length > 0`.
AlreadyInitialized(existingCandidates) == Len(existingCandidates) > 0

\* db.insert(candidates).values(candidatesList): ids are auto-incremented,
\* votes default to 0.
InsertCandidates(table, list) ==
    table \o [i \in 1..Len(list) |->
                [id |-> Len(table) + i, name |-> list[i].name, votes |-> 0]]

\* The foreign key votes.candidateId -> candidates.id.
ForeignKeyHolds(candidateId) == candidateId \in Ids(candidates)

\* An insert that replaces the rows of the table by the new row.
InsertVoteReplacing(table, candidateId, voterIdentifier) ==
    <<[id |-> Len(table) + 1, candidateId |-> candidateId,
       voterIdentifier |-> voterIdentifier]>>

\* db.insert(votes).values({candidateId, voterIdentifier}).
InsertVote(table, candidateId, voterIdentifier) ==
    Append(table, [id |-> Len(table) + 1, candidateId |-> candidateId,
                   voterIdentifier |-> voterIdentifier])

\* db.select().from(candidates).where(id = candidateId).limit(1).
SelectCandidate(candidateId) ==
    LET Test(r) == r.id = candidateId
    IN  LimitRows(SelectSeq(candidates, Test), Limit)

\* The vote counts of a list of candidates, in the order of the list.
Tally(table) == [i \in 1..Len(table) |-> table[i].votes]

\* db.update(candidates).set({votes: n}).where(id = candidateId).
UpdateVotes(table, candidateId, n) ==
    [i \in 1..Len(table) |->
        IF table[i].id = candidateId
        THEN [table[i] EXCEPT !.votes = n]
        ELSE table[i]]

\* --------------------------------------------------------------------- init

NoOp == [name |-> "none", candidateId |-> 0, voterIdentifier |-> 0]
NoPre == [candidates |-> <<>>, seeded |-> FALSE, hadRow |-> FALSE]
NoEffect == [inserted |-> 0, updated |-> FALSE]
NoResponse ==
    [op |-> NoOp, result |-> NoResult, error |-> NoError, pre |-> NoPre,
     effect |-> NoEffect]

\* Home's state at its first render: the useState defaults, the
\* candidates query loading, hasVoted disabled, the mutation idle.
FirstRender ==
    [voterIdentifier |-> 0, selectedCandidateId |-> 0,
     votingComplete |-> FALSE, error |-> "", candidates |-> <<>>,
     candidatesLoading |-> TRUE, hasAlreadyVoted |-> FALSE,
     voteMutation |-> [status |-> "idle", code |-> ""]]

\* The process has just started: no handle yet, no request in flight.
InitCommon ==
    /\ page = FirstRender
    /\ _db = FALSE
    /\ votes = <<>>
    /\ pc = [p \in Procs |-> "idle"]
    /\ op = [p \in Procs |-> NoOp]
    /\ candidate = [p \in Procs |-> <<>>]
    /\ response = NoResponse
    /\ faults = 0
    /\ calls = 0
    /\ seen = 0
    /\ named = 0
    /\ pre = [p \in Procs |-> NoPre]
    /\ effect = [p \in Procs |-> NoEffect]
    /\ accepted = {}
    /\ voteFailed = FALSE

\* Concurrent requests, store queries that may throw.  The store outlives
\* the process: it is fresh, or an earlier run seeded it.
Init ==
    /\ DATABASE_URL \in BOOLEAN
    /\ candidates \in {<<>>, InsertCandidates(<<>>, candidatesList)}
    /\ faultBudget = MaxFaults
    /\ callBudget = MaxCalls
    /\ InitCommon

\* One request at a time, no store query throws, a fresh store.
InitSeq ==
    /\ DATABASE_URL \in BOOLEAN
    /\ candidates = <<>>
    /\ faultBudget = 0
    /\ callBudget = MaxSeqCalls
    /\ InitCommon

\* Concurrent vote calls against a seeded store that is reachable and
\* throws no error.
InitVotes ==
    /\ DATABASE_URL = TRUE
    /\ candidates = InsertCandidates(<<>>, candidatesList)
    /\ faultBudget = 0
    /\ callBudget = MaxVoteCalls
    /\ InitCommon

\* ------------------------------------------------------------ the requests

Free(p) == pc[p] = "idle"
InVote(p) == op[p].name = "vote"
AllFree == \A p \in Procs : Free(p)

\* The input of a call.
Input(name, candidateId, voterIdentifier) ==
    [name |-> name, candidateId |-> candidateId,
     voterIdentifier |-> voterIdentifier]

\* What the tables held when a call with input o was received.
Before(o) ==
    [candidates |-> IF o.name = "vote" THEN Tally(candidates) ELSE <<>>,
     seeded |-> o.name = "getCandidates" /\ Len(candidates) > 0,
     hadRow |-> o.name = "vote"
                /\ \E i \in 1..Len(votes) :
                      votes[i].voterIdentifier = o.voterIdentifier]

\* A request with input o is received in slot p.  Requests are anonymous,
\* voter identifiers opaque and the seeded candidates alike, so a request
\* takes the first free slot, an identifier not submitted before is the next
\* unused one, and a candidate not voted for before is the next of the list.
Receive(p, o) ==
    /\ Free(p)
    /\ \A q \in Procs : q < p => ~Free(q)
    /\ calls < callBudget
    /\ calls' = calls + 1
    /\ o.voterIdentifier <= seen + 1
    /\ seen' = IF o.voterIdentifier > seen THEN o.voterIdentifier ELSE seen
    /\ o.candidateId = UnknownId \/ o.candidateId <= named + 1
    /\ named' = IF o.candidateId # UnknownId /\ o.candidateId > named
                THEN o.candidateId
                ELSE named
    /\ UNCHANGED <<DATABASE_URL, faultBudget, callBudget>>

\* A store query was issued: it threw (ok = FALSE) or not.
Query(ok) == faults' = IF ok THEN faults ELSE faults + 1

\* The procedure of p, called with o, resolves with r, or rejects with r
\* after catching an error with `message`; its locals are gone.
Finish(p, o, r, message) ==
    /\ pc' = [pc EXCEPT ![p] = "idle"]
    /\ op' = [op EXCEPT ![p] = NoOp]
    /\ candidate' = [candidate EXCEPT ![p] = <<>>]
    /\ pre' = [pre EXCEPT ![p] = NoPre]
    /\ effect' = [effect EXCEPT ![p] = NoEffect]
    /\ response' = [op |-> o, result |-> r, error |-> message,
                    pre |-> IF Free(p) THEN Before(o) ELSE pre[p],
                    effect |-> effect[p]]
    /\ accepted' = IF r.kind = "vote"
                   THEN accepted \cup {o.voterIdentifier}
                   ELSE accepted
    /\ voteFailed' = (voteFailed \/ r.kind = "error")
    /\ UNCHANGED page

\* addVote threw `message`; the router's catch maps it to a TRPCError.
Throw(p, o, message) == Finish(p, o, VoteFailure(message), message)

\* The request of p, called with o, goes on to its next query.
Goto(p, o, label) ==
    /\ pc' = [pc EXCEPT ![p] = label]
    /\ op' = [op EXCEPT ![p] = o]
    /\ pre' = [pre EXCEPT ![p] = IF Free(p) THEN Before(o) ELSE pre[p]]
    /\ UNCHANGED <<response, accepted, voteFailed, page>>

\* voting.getCandidates is called: initializeCandidates runs getDb and the
\* select of the existing candidates.  Without a handle, on an error and
\* when there are rows it returns.
CallGetCandidates(p) ==
    \E ok \in Outcomes :
        /\ Receive(p, Input("getCandidates", 0, 0))
        /\ _db' = getDb
        /\ faults' = IF getDb /\ ~ok THEN faults + 1 ELSE faults
        /\ IF getDb /\ ok /\ ~AlreadyInitialized(candidates)
           THEN Goto(p, Input("getCandidates", 0, 0), "init_insert")
           ELSE Goto(p, Input("getCandidates", 0, 0), "list")
        /\ UNCHANGED <<store, candidate, effect>>

\* initializeCandidates: the bulk insert of candidatesList; an error is
\* logged and swallowed.
InitInsert(p) ==
    \E ok \in Outcomes :
        /\ pc[p] = "init_insert"
        /\ Query(ok)
        /\ candidates' = IF ok
                         THEN InsertCandidates(candidates, candidatesList)
                         ELSE candidates
        /\ Goto(p, op[p], "list")
        /\ UNCHANGED <<env, _db, votes, candidate, effect>>

\* voting.getCandidates: getAllCandidates(), the procedure's result.
List(p) ==
    \E ok \in Outcomes :
        /\ pc[p] = "list"
        /\ _db' = getDb
        /\ faults' = IF getDb /\ ~ok THEN faults + 1 ELSE faults
        /\ Finish(p, op[p], ListResult(getAllCandidates(ok)), NoError)
        /\ UNCHANGED <<env, store>>

\* voting.hasVoted({voterIdentifier}) is called: hasVoted(voterIdentifier)
\* is the procedure's result.
CallHasVoted(p, v) ==
    \E ok \in Outcomes :
        /\ HasVotedInputValid(v)
        /\ Receive(p, Input("hasVoted", 0, v))
        /\ _db' = getDb
        /\ faults' = IF getDb /\ ~ok THEN faults + 1 ELSE faults
        /\ Finish(p, Input("hasVoted", 0, v), BoolResult(hasVoted(v, ok)), NoError)
        /\ UNCHANGED store

\* voting.vote({candidateId, voterIdentifier}) is called: addVote runs getDb
\* and the existence check through hasVoted.  Without a handle addVote
\* returns false, which voting.vote does not look at: it goes on to
\* getAllCandidates (also without a handle) and returns success.
CallVote(p, c, v) ==
    \E ok \in Outcomes :
        /\ VoteInputValid(c, v)
        /\ Receive(p, Input("vote", c, v))
        /\ _db' = getDb
        /\ faults' = IF getDb /\ ~ok THEN faults + 1 ELSE faults
        /\ IF ~getDb
           THEN Finish(p, Input("vote", c, v),
                       VoteSuccess(getAllCandidates(TRUE)), NoError)
           ELSE IF hasVoted(v, ok)
           THEN Throw(p, Input("vote", c, v), AlreadyVotedMessage)
           ELSE /\ Goto(p, Input("vote", c, v), "av_insert")
                /\ UNCHANGED <<candidate, effect>>
        /\ UNCHANGED store

\* voting.vote is called with an input its parser rejects: the mutation
\* does not run.
RejectVote(p, c, v) ==
    /\ ~VoteInputValid(c, v)
    /\ Receive(p, Input("vote", c, v))
    /\ Finish(p, Input("vote", c, v), InvalidInput, NoError)
    /\ UNCHANGED <<_db, store, faults>>

\* addVote: the insert of the vote row; the store rejects a row whose
\* candidateId has no candidate.
AvInsert(p) ==
    \E ok \in Outcomes :
        /\ pc[p] = "av_insert"
        /\ Query(ok)
        /\ IF ~ok
           THEN Throw(p, op[p], StoreErrorMessage) /\ UNCHANGED votes
           ELSE IF ~ForeignKeyHolds(op[p].candidateId)
           THEN Throw(p, op[p], ForeignKeyMessage) /\ UNCHANGED votes
           ELSE /\ votes' = InsertVote(votes, op[p].candidateId,
                                       op[p].voterIdentifier)
                /\ effect' = [effect EXCEPT ![p].inserted = Len(votes) + 1]
                /\ Goto(p, op[p], "av_select")
                /\ UNCHANGED candidate
        /\ UNCHANGED <<env, _db, candidates>>

\* addVote: the select of the candidate's row.  With no row the update is
\* skipped and addVote returns true.
AvSelect(p) ==
    \E ok \in Outcomes :
        /\ pc[p] = "av_select"
        /\ Query(ok)
        /\ IF ~ok
           THEN Throw(p, op[p], StoreErrorMessage)
           ELSE /\ candidate' = [candidate EXCEPT
                                    ![p] = SelectCandidate(op[p].candidateId)]
                /\ IF Len(SelectCandidate(op[p].candidateId)) > 0
                   THEN Goto(p, op[p], "av_update")
                   ELSE Goto(p, op[p], "v_list")
                /\ UNCHANGED effect
        /\ UNCHANGED <<env, _db, store>>

\* addVote: the update that writes the count read by the select, plus one;
\* addVote then returns true and its local `candidate` is gone.
AvUpdate(p) ==
    \E ok \in Outcomes :
        /\ pc[p] = "av_update"
        /\ Query(ok)
        /\ IF ~ok
           THEN Throw(p, op[p], StoreErrorMessage) /\ UNCHANGED candidates
           ELSE /\ candidates' = UpdateVotes(candidates, op[p].candidateId,
                                             candidate[p][1].votes + 1)
                /\ candidate' = [candidate EXCEPT ![p] = <<>>]
                /\ effect' = [effect EXCEPT ![p].updated = TRUE]
                /\ Goto(p, op[p], "v_list")
        /\ UNCHANGED <<env, _db, votes>>

\* voting.vote: addVote returned true; getAllCandidates() and the success
\* response.
VList(p) ==
    \E ok \in Outcomes :
        /\ pc[p] = "v_list"
        /\ Query(ok)
        /\ Finish(p, op[p], VoteSuccess(getAllCandidates(ok)), NoError)
        /\ UNCHANGED <<env, _db, store>>

\* ----------------------------------------------------------------- the page

\* The texts Home puts in `error`: the message of the TRPCError that
\* voting.vote throws with `code`, and handleVote's own message.
TrpcMessage(code) ==
    IF code = "BAD_REQUEST"
    THEN "this device has already voted"
    ELSE "voting failed, please try again"
ChooseCandidateMessage == "please choose a candidate"

\* What the three procedures can answer to the page.
ListResponses ==
    {ListResult(rows) : rows \in {<<>>, InsertCandidates(<<>>, candidatesList)}}
HasVotedResponses == {BoolResult(b) : b \in BOOLEAN}
VoteSuccessResponses == {VoteSuccess(r.candidates) : r \in ListResponses}
VoteFailureResponses ==
    {VoteFailure(m) : m \in {AlreadyVotedMessage, StoreErrorMessage,
                              ForeignKeyMessage}}

\* The branch of Home's render: the spinner, the already-voted card, the
\* thank-you card or the voting form.
Screen(h) ==
    IF h.candidatesLoading THEN "loading"
    ELSE IF h.hasAlreadyVoted /\ ~h.votingComplete THEN "alreadyVoted"
    ELSE IF h.votingComplete THEN "votingComplete"
    ELSE "form"

\* The error alert, rendered on the voting form when `error` is not empty.
Banner(h) == Screen(h) = "form" /\ h.error # ""

\* The vote button's `disabled`.
VoteDisabled(h) ==
    h.selectedCandidateId = 0 \/ h.voteMutation.status = "pending"

\* useEffect: the device's identifier (its IP address or a fingerprint of
\* the browser) arrives.
getVoterIdentifier(v) ==
    /\ page.voterIdentifier = 0
    /\ page' = [page EXCEPT !.voterIdentifier = v]
    /\ UNCHANGED server

\* trpc.voting.getCandidates.useQuery: the query, or a refetch, resolves.
CandidatesSettled(r) ==
    /\ page' = [page EXCEPT !.candidates = r.candidates,
                            !.candidatesLoading = FALSE]
    /\ UNCHANGED server

\* trpc.voting.hasVoted.useQuery, enabled once the identifier is there: the
\* query, or a refetch, resolves.
HasVotedSettled(r) ==
    /\ page.voterIdentifier # 0
    /\ page' = [page EXCEPT !.hasAlreadyVoted = r.value]
    /\ UNCHANGED server

\* A click on the card of candidate c of the voting form.
setSelectedCandidateId(c) ==
    /\ Screen(page) = "form"
    /\ c \in Ids(page.candidates)
    /\ page' = [page EXCEPT !.selectedCandidateId = c]
    /\ UNCHANGED server

\* A click on the vote button of the voting form.
handleVote ==
    /\ Screen(page) = "form"
    /\ ~VoteDisabled(page)
    /\ IF page.selectedCandidateId = 0 \/ page.voterIdentifier = 0
       THEN page' = [page EXCEPT !.error = ChooseCandidateMessage]
       ELSE page' = [page EXCEPT !.voteMutation =
                                    [status |-> "pending", code |-> ""]]
    /\ UNCHANGED server

\* voteMutation's onSuccess: the vote request is answered with r.
onSuccess(r) ==
    /\ page.voteMutation.status = "pending"
    /\ page' = [page EXCEPT !.votingComplete = TRUE,
                            !.error = "",
                            !.voteMutation = [status |-> "success", code |-> ""]]
    /\ UNCHANGED server

\* voteMutation's onError: the vote request is answered with the TRPCError r.
onError(r) ==
    /\ page.voteMutation.status = "pending"
    /\ page' = [page EXCEPT !.error = TrpcMessage(r.code),
                            !.voteMutation = [status |-> "error", code |-> r.code]]
    /\ UNCHANGED server

\* A request is received and issues its first query, or a request in
\* flight issues its next one.
Next ==
    \/ \E p \in Procs : CallGetCandidates(p)
    \/ \E p \in Procs, v \in Voters : CallHasVoted(p, v)
    \/ \E p \in Procs, c \in CandidateInputs, v \in Voters : CallVote(p, c, v)
    \/ \E p \in Procs : InitInsert(p)
    \/ \E p \in Procs : List(p)
    \/ \E p \in Procs : AvInsert(p)
    \/ \E p \in Procs : AvSelect(p)
    \/ \E p \in Procs : AvUpdate(p)
    \/ \E p \in Procs : VList(p)

\* Requests arrive one after another: none starts while one is in flight.
NextSeq ==
    \/ \E p \in Procs : AllFree /\ CallGetCandidates(p)
    \/ \E p \in Procs, v \in Voters : AllFree /\ CallHasVoted(p, v)
    \/ \E p \in Procs, c \in CandidateInputs, v \in Voters :
            AllFree /\ CallVote(p, c, v)
    \/ \E p \in Procs : InitInsert(p)
    \/ \E p \in Procs : List(p)
    \/ \E p \in Procs : AvInsert(p)
    \/ \E p \in Procs : AvSelect(p)
    \/ \E p \in Procs : AvUpdate(p)
    \/ \E p \in Procs : VList(p)

\* Requests one after another, with the inputs a caller can send: the empty
\* voter identifier and non-positive candidate ids too.
NextBoundary ==
    \/ \E p \in Procs : AllFree /\ CallGetCandidates(p)
    \/ \E p \in Procs, v \in VoterInputs : AllFree /\ CallHasVoted(p, v)
    \/ \E p \in Procs, c \in CandidateIdInputs, v \in VoterInputs :
            AllFree /\ CallVote(p, c, v)
    \/ \E p \in Procs, c \in CandidateIdInputs, v \in VoterInputs :
            AllFree /\ RejectVote(p, c, v)
    \/ \E p \in Procs : InitInsert(p)
    \/ \E p \in Procs : List(p)
    \/ \E p \in Procs : AvInsert(p)
    \/ \E p \in Procs : AvSelect(p)
    \/ \E p \in Procs : AvUpdate(p)
    \/ \E p \in Procs : VList(p)

\* Vote calls only, each from a voter identifier of its own or from one
\* submitted before.
NextVotes ==
    \/ \E p \in Procs, c \in CandidateInputs, v \in 1..MaxVoteCalls :
            CallVote(p, c, v)
    \/ \E p \in Procs : AvInsert(p)
    \/ \E p \in Procs : AvSelect(p)
    \/ \E p \in Procs : AvUpdate(p)
    \/ \E p \in Procs : VList(p)

\* The page of one browser: its effects, the user's clicks and the answers
\* of the three procedures.
NextPage ==
    \/ \E v \in Voters : getVoterIdentifier(v)
    \/ \E r \in ListResponses : CandidatesSettled(r)
    \/ \E r \in HasVotedResponses : HasVotedSettled(r)
    \/ \E c \in 1..SeedCount : setSelectedCandidateId(c)
    \/ handleVote
    \/ \E r \in VoteSuccessResponses : onSuccess(r)
    \/ \E r \in VoteFailureResponses : onError(r)

Spec == Init /\ [][Next]_vars

SpecSeq == InitSeq /\ [][NextSeq]_vars

SpecBoundary == Init /\ [][NextBoundary]_vars

SpecVotes == InitVotes /\ [][NextVotes]_vars

SpecPage == InitVotes /\ [][NextPage]_vars

\* --------------------------------------------------------------- properties

\* The vote rows of voter identifier v.
RowsOfVoter(v) == {i \in 1..Len(votes) : votes[i].voterIdentifier = v}

\* The vote rows that reference candidate id c.
RowsOfCandidate(c) == {i \in 1..Len(votes) : votes[i].candidateId = c}

NoVoteInFlight == \A p \in Procs : ~InVote(p)

\* C1: for every voter identifier there are never two or more vote rows,
\* whatever the interleaving of concurrent vote calls (here even with no
\* store query throwing).
C1_OneVotePerVoter ==
    faults = 0 => \A v \in Voters : Cardinality(RowsOfVoter(v)) <= 1

\* C2: whenever no vote call is in flight and every vote call so far
\* succeeded, each candidate's stored count is the number of vote rows that
\* reference it (here even when no voter has two rows and no query threw).
C2_TallyConsistent ==
    (/\ NoVoteInFlight
     /\ ~voteFailed
     /\ faults = 0
     /\ \A v \in Voters : Cardinality(RowsOfVoter(v)) <= 1)
    => \A i \in 1..Len(candidates) :
          candidates[i].votes = Cardinality(RowsOfCandidate(candidates[i].id))

\* C3: a vote call answers success only if that call persisted a vote row
\* for its candidate and voter identifier.
C3_SuccessMeansPersisted ==
    response.result.kind = "vote"
    => /\ response.effect.inserted \in 1..Len(votes)
       /\ votes[response.effect.inserted].candidateId
              = response.op.candidateId
       /\ votes[response.effect.inserted].voterIdentifier
              = response.op.voterIdentifier

\* C4: a vote call that started when its voter identifier already had a
\* vote row fails with the duplicate-vote error and wrote nothing.
C4_DuplicateRejected ==
    (response.op.name = "vote" /\ response.pre.hadRow)
    => /\ response.result.kind = "error"
       /\ response.result.code = "BAD_REQUEST"
       /\ response.effect = NoEffect

\* C5: a vote call for a candidate id that no candidate has is answered with
\* a failure and wrote neither a vote row nor a count.
C5_UnknownCandidateRejected ==
    (response.op.name = "vote"
     /\ response.op.candidateId \notin Ids(candidates))
    => /\ response.result.kind = "error"
       /\ response.effect = NoEffect

\* C6: the candidate table never holds more than the seed candidates and no
\* name twice, whatever the interleaving of concurrent first list calls
\* (here even with no store query throwing).
C6_SeededAtMostOnce ==
    faults = 0 =>
        /\ Len(candidates) <= SeedCount
        /\ \A i, j \in 1..Len(candidates) :
              candidates[i].name = candidates[j].name => i = j

\* The ids and names of a list of candidates, in the order of the list.
IdsAndNames(rows) == [i \in 1..Len(rows) |-> <<rows[i].id, rows[i].name>>]

\* Request p, a getCandidates call, takes a step: its first or a later one.
ListStep(p) ==
    \/ op[p].name = "getCandidates" /\ pc'[p] # pc[p]
    \/ op'[p].name = "getCandidates" /\ pc'[p] # pc[p]

\* C7: with the store available and requests one after another from an empty
\* candidate table, the table holds no candidate or exactly the seed; every
\* list call leaves exactly the seed and returns the seed's ids and names with
\* the stored counts; a list call that finds candidates changes no row.
C7_SequentialSeedingIdempotent ==
    /\ [](DATABASE_URL =>
            /\ Len(candidates) \in {0, SeedCount}
            /\ (response.op.name = "getCandidates" =>
                  /\ Len(candidates) = SeedCount
                  /\ IdsAndNames(response.result.candidates)
                        = [i \in 1..SeedCount |-> <<i, candidatesList[i].name>>]))
    /\ [][\A p \in Procs :
            (DATABASE_URL /\ ListStep(p)) =>
                /\ (Len(candidates) > 0 => candidates' = candidates)
                /\ (pc'[p] = "idle"
                      => response'.result.candidates = candidates)]_vars

\* C7 witness: a list call that found the table seeded by an earlier call
\* has returned the five candidates.
C7_Witness ==
    /\ DATABASE_URL
    /\ response.op.name = "getCandidates"
    /\ response.pre.seeded
    /\ Len(response.result.candidates) = SeedCount
    /\ calls >= 2

\* C8: a successful vote call that ran with no other call added exactly its
\* vote row, and the list it returns shows its candidate with the count
\* before the call plus one and every other candidate with its old count.
C8_AcceptedVoteEffect ==
    response.result.kind = "vote"
    => /\ response.effect.inserted \in 1..Len(votes)
       /\ votes[response.effect.inserted].candidateId
              = response.op.candidateId
       /\ votes[response.effect.inserted].voterIdentifier
              = response.op.voterIdentifier
       /\ Len(response.result.candidates) = Len(response.pre.candidates)
       /\ \E i \in 1..Len(response.result.candidates) :
              response.result.candidates[i].id = response.op.candidateId
       /\ \A i \in 1..Len(response.result.candidates) :
              response.result.candidates[i].votes
                = response.pre.candidates[i]
                  + (IF response.result.candidates[i].id
                          = response.op.candidateId THEN 1 ELSE 0)

\* A hasVoted call is received and answered.
HasVotedStep ==
    calls' = calls + 1 /\ pc' = pc /\ response'.op.name = "hasVoted"

\* C9: a hasVoted call whose select reached the store and did not throw
\* answers true exactly when a vote row of its voter identifier exists, and
\* answers true for every identifier whose vote call returned success.
C9_HasVotedExact ==
    [][(HasVotedStep /\ _db' /\ faults' = faults)
          => /\ response'.result.value
                  = (\E i \in 1..Len(votes) :
                        votes[i].voterIdentifier
                            = response'.op.voterIdentifier)
             /\ (response'.op.voterIdentifier \in accepted
                  => response'.result.value)]_vars

\* C9 witness: hasVoted answered true for an identifier whose vote call had
\* returned success.
C9_Witness ==
    /\ response.op.name = "hasVoted"
    /\ response.result.value
    /\ response.op.voterIdentifier \in accepted
    /\ _db

\* C10: a failed vote call carries BAD_REQUEST exactly when addVote threw
\* its duplicate-vote error, which it throws only when the voter identifier
\* has a vote row and before it writes; every other failure carries
\* INTERNAL_SERVER_ERROR.
C10_DuplicateDistinguishable ==
    response.result.kind = "error"
    => /\ response.op.name = "vote"
       /\ response.result.code \in {"BAD_REQUEST", "INTERNAL_SERVER_ERROR"}
       /\ (response.result.code = "BAD_REQUEST"
              <=> response.error = AlreadyVotedMessage)
       /\ (response.result.code = "BAD_REQUEST"
              => /\ RowsOfVoter(response.op.voterIdentifier) # {}
                 /\ response.effect = NoEffect)
       /\ (response.error \in {StoreErrorMessage, ForeignKeyMessage}
              => response.result.code = "INTERNAL_SERVER_ERROR")

\* C10 witness: both kinds of failure were answered: this one is the
\* duplicate-vote error for an identifier that had a row.
C10_Witness ==
    /\ response.result.kind = "error"
    /\ response.result.code = "BAD_REQUEST"
    /\ response.pre.hadRow

\* A request input the boundary is to reject: an empty voter identifier on
\* hasVoted or vote, a non-positive candidate id on vote.
Malformed(o) ==
    \/ o.name \in {"hasVoted", "vote"} /\ o.voterIdentifier = 0
    \/ o.name = "vote" /\ o.candidateId <= 0

\* C11: a hasVoted or vote request with an empty voter identifier, and a vote
\* request with a non-positive candidate id, never runs its procedure: it is
\* answered with a validation error in the step that receives it, and that
\* step issues no store query (none can throw, no handle is created).
C11_BoundaryValidation ==
    /\ [](\A p \in Procs : ~Malformed(op[p]))
    /\ [][(calls' = calls + 1 /\ pc' = pc /\ Malformed(response'.op))
            => /\ response'.result.kind = "invalid"
               /\ faults' = faults
               /\ _db' = _db
               /\ store' = store]_vars

\* Request p, a getCandidates call, is answered.
ListAnswered(p) == pc[p] = "list" /\ pc'[p] = "idle"

\* C12: whenever the store has no handle or the read of getAllCandidates or
\* hasVoted throws, a list call is answered with the empty sequence and a
\* hasVoted call with false; no list or hasVoted call is ever answered with
\* an error.
C12_ReadDegradation ==
    /\ [](response.op.name \in {"getCandidates", "hasVoted"}
            => response.result.kind \in {"list", "bool"})
    /\ [][/\ \A p \in Procs :
                (ListAnswered(p) /\ (~_db' \/ faults' # faults))
                    => response'.result = ListResult(<<>>)
          /\ (HasVotedStep /\ (~_db' \/ faults' # faults))
                    => response'.result = BoolResult(FALSE)]_vars

\* C12 witness: a hasVoted call whose select threw was answered false, for
\* an identifier whose vote call had written its row and returned.
C12_Witness ==
    /\ AllFree
    /\ response.op.name = "hasVoted"
    /\ response.result = BoolResult(FALSE)
    /\ _db
    /\ faults > 0
    /\ RowsOfVoter(response.op.voterIdentifier) # {}

\* A vote call is received in slot p and the select of its existence check
\* throws.
VoteCheckFails(p) ==
    /\ Free(p)
    /\ calls' = calls + 1
    /\ faults' = faults + 1
    /\ \/ op'[p].name = "vote"
       \/ pc' = pc /\ response'.op.name = "vote"

\* C13: a vote call whose existence-check select throws is answered with a
\* failure by that step; it does not go on to the insert of its vote row.
C13_CheckFailureNotAbsorbed ==
    [][\A p \in Procs :
          VoteCheckFails(p)
              => /\ pc'[p] = "idle"
                 /\ response'.result.kind = "error"
                 /\ votes' = votes]_vars

\* C14: a vote call answered with a failure wrote nothing: neither its vote
\* row nor a count; no vote row is left without its count increment.
C14_FailureAtomic ==
    (response.op.name = "vote" /\ response.result.kind = "error")
    => /\ response.effect.inserted = 0
       /\ ~response.effect.updated

\* C15: no step lowers a candidate's stored count or removes a candidate,
\* whatever the interleaving of concurrent vote calls: a count stays or grows
\* by exactly 1 (here even with the store reachable and no query throwing).
C15_CountsMonotone ==
    [][/\ Len(candidates') >= Len(candidates)
       /\ \A i \in 1..Len(candidates) :
              /\ candidates'[i].id = candidates[i].id
              /\ candidates'[i].votes
                    \in {candidates[i].votes, candidates[i].votes + 1}]_vars

\* Some call is answered: a request in flight returns, or a call is received
\* and answered at once.
Answered ==
    \/ \E p \in Procs : pc[p] # "idle" /\ pc'[p] = "idle"
    \/ calls' = calls + 1 /\ pc' = pc

\* C16: whatever the interleaving of concurrent vote calls, at most one vote
\* call per voter identifier is answered with success: no vote call is
\* answered with success when a call of its identifier was accepted before
\* (here even with the store reachable and no query throwing).
C16_OneAcceptedVotePerVoter ==
    [][(/\ Answered
        /\ response'.op.name = "vote"
        /\ response'.op.voterIdentifier \in accepted)
          => response'.result.kind # "vote"]_vars

\* C17: no step updates or deletes a vote row: every vote row of a state is
\* a row of the next state, with the same candidate reference and the same
\* voter identifier.
C17_VoteRowsImmutable ==
    [][/\ Len(votes') >= Len(votes)
       /\ \A i \in 1..Len(votes) : votes'[i] = votes[i]]_vars

\* C17 witness: two vote calls have written their rows and their counts and
\* returned.
C17_Witness ==
    /\ AllFree
    /\ Len(votes) = 2
    /\ accepted # {}
    /\ \E i \in 1..Len(candidates) : candidates[i].votes > 0

\* The step appends the seed candidates, with count 0, to the table and
\* leaves every row the table had as it was.
SeedAppended ==
    /\ Len(candidates') = Len(candidates) + SeedCount
    /\ \A i \in 1..Len(candidates) : candidates'[i] = candidates[i]
    /\ \A i \in 1..SeedCount :
          /\ candidates'[Len(candidates) + i].name = candidatesList[i].name
          /\ candidates'[Len(candidates) + i].votes = 0

VoteResponse ==
    page.voteMutation.status = "pending" /\ page'.voteMutation.status # "pending"

\* C19: when the page's vote request fails with the already-voted error the
\* page shows the already-voted screen and no error banner; a vote response
\* leaves the banner shown only if it is another failure; votingComplete is
\* entered only by a successful vote response.
C19_PresentationState ==
    [][/\ (VoteResponse /\ page'.voteMutation.code = "BAD_REQUEST")
            => (Screen(page') = "alreadyVoted" /\ ~Banner(page'))
       /\ (VoteResponse /\ Banner(page'))
            => /\ page'.voteMutation.status = "error"
               /\ page'.voteMutation.code # "BAD_REQUEST"
       /\ (page'.votingComplete /\ ~page.votingComplete)
            => (VoteResponse /\ page'.voteMutation.status = "success")]_vars

====
